---- MODULE Spec2Model ----
(***************************************************************************)
(* Model of basecamp's parallel repository acquisition:                     *)
(*   - install.rs  clone_repositories      (the `install` command)          *)
(*   - add.rs      install_new_repositories and the rollback in execute     *)
(*                                          (the `add` command)             *)
(*   - config.rs   add_repositories / remove_repositories                   *)
(* A batch is a list of repository names.  The main thread spawns worker    *)
(* threads, every worker loops "take an index from the pending list, check  *)
(* the local path, clone when it is absent, record, count", and the main    *)
(* thread joins every worker before it reads the shared lists.              *)
(*                                                                          *)
(* Spec    : `install <codebase>` run once and then a second time.          *)
(* SpecAdd : `add <codebase> <repos...>` with its install and rollback.     *)
(***************************************************************************)
EXTENDS Integers, Sequences, FiniteSets, TLC

\* ------------------------------------------------------------------ bounds
MaxRepos == 2          \* largest number of repositories in one batch
MaxParallel == 3       \* largest value of --parallel that is tried (0 included)

MaxExtraKeys == 1      \* most key candidates beyond the standard ones
MaxCalls == 8          \* most credential requests a transport makes in one clone
MaxBaseLen == 6        \* most pieces of a base URL given to build_repo_url
MaxCloners == 2        \* most GitRepo::clone invocations running at the same time

\* ------------------------------------------------------- program constants
AddParallelCount == 4  \* add.rs: let parallel_count = 4;
MaxAuthAttempts == 5   \* git.rs: if current_attempt > 5
StandardKeys == 6      \* git.rs: the six key_attempts.push of standard names

NameList == <<"a", "b", "c", "d", "e", "f">>
Names == {NameList[k] : k \in 1..MaxRepos}   \* repository names (distinct)
NeverRequested == "z"
Target == "frontend"                     \* the codebase the command is given
Other == "backend"                       \* another codebase of the configuration
MaxWorkers == IF MaxParallel > AddParallelCount THEN MaxParallel ELSE AddParallelCount
Workers == 1..MaxWorkers                 \* thread handles, in spawn order
NoJob == MaxRepos                        \* stands for "no index": no job has it
NoOwner == MaxWorkers + 1                \* stands for "unlocked": no worker has it
\* the four Mutex values the workers of a batch share
Mutexes == {"remaining_repos", "errors", "already_installed_repos", "completed_repos"}
Cloners == 1..MaxCloners                 \* threads that are inside GitRepo::clone

VARIABLES
    flow,          \* "install" or "add": which command runs
    run,           \* 1 or 2: first or second consecutive install of the codebase
    parallel_count,      \* requested parallel_count (argument of the batch function)
    repos,         \* the job list: repos[i+1] is the name of job index i
    exists,        \* names whose local path exists on disk
    remaining_repos,     \* remaining_repos: Mutex<Vec<usize>>, pending indices
    errors,        \* errors: Mutex<Vec<(String, String)>>, here the names
    already_installed_repos,       \* already_installed_repos: Mutex<Vec<String>> (install only)
    completed_repos,     \* completed_repos: Mutex<i32>
    progressPos,   \* position of the main progress bar
    spawned,       \* number of thread handles pushed so far
    joined,        \* number of handles joined so far
    wpc,           \* wpc[w]: position of worker w in its loop
    wjob,          \* wjob[w]: index worker w is working on, or NoJob
    mainPc,        \* position of the main thread
    batchResult,   \* "none", "Ok" or "Err": value returned by the batch function
    report,        \* which closing message the batch function printed
    reportedNew, \* newly_installed as computed at install.rs:218
    cmdResult,     \* "none", "Ok" or "Err": value returned by the command
    taken,         \* taken[i]: times index i was handed out by the pending list
    executed,      \* executed[i]: times job i went through the existence check
    cloneCalls,    \* cloneCalls[i]: times GitRepo::clone was invoked for job i
    outcome,       \* outcome[i]: "none", "present", "cloned" or "failed"
    startExists,   \* names whose path was on disk when the current run started
    leftBehind,    \* names whose clone failed in the run before and left its path
    diskCfg,       \* .basecamp/codebases.yaml: codebase -> list of repository names
    request,       \* add: the repository names given on the command line
    toRemove,      \* add: repos_to_remove computed by the rollback
    rollback,      \* add: how the rollback ended
    startCfg,      \* codebases.yaml as it was when the command started
    cred,          \* one GitRepo::clone invocation: its credential callback
    cfgop,         \* the last Config operation applied and what it returned
    url,           \* a build_repo_url call: its arguments and its result
    credPool,      \* concurrent GitRepo::clone invocations and their attempt counters
    locks,         \* locks[m]: the worker holding mutex m, or NoOwner
    rm,            \* one remove command: its arguments, the configuration and the disk
    inst           \* one install of all codebases: the loop over the codebases

vars == <<flow, run, parallel_count, repos, exists, remaining_repos, errors, already_installed_repos, completed_repos,
          progressPos, spawned, joined, wpc, wjob, mainPc, batchResult, report,
          reportedNew, cmdResult, taken, executed, cloneCalls, outcome, startExists,
          leftBehind, diskCfg, request, toRemove, rollback, startCfg, cred, cfgop, url,
          credPool, locks, rm, inst>>

poolVars == <<remaining_repos, errors, already_installed_repos, completed_repos, progressPos, wpc, wjob>>
ghostVars == <<taken, executed, cloneCalls, outcome>>
mainVars == <<spawned, joined, mainPc, batchResult, report, reportedNew, cmdResult>>
addVars == <<diskCfg, request, toRemove, rollback, startCfg>>
unitVars == <<cred, cfgop, url, credPool, locks, rm, inst>>
inputVars == <<flow, run, parallel_count, repos, startExists, leftBehind, addVars, unitVars>>
batchVars == <<flow, run, parallel_count, repos, exists, remaining_repos, errors,
               already_installed_repos, completed_repos, progressPos, spawned, joined,
               wpc, wjob, mainPc, batchResult, report, reportedNew, cmdResult,
               taken, executed, cloneCalls, outcome, startExists, leftBehind, request,
               toRemove,
               rollback,
               startCfg>>

\* ---------------------------------------------------------------- helpers
Min(a, b) == IF a < b THEN a ELSE b

total_repos == Len(repos)                      \* total_repos = repos.len()
Indices == 0..(total_repos - 1)                \* the job indices of the batch
JobIndices == 0..(MaxRepos - 1)
NameOf(i) == repos[i + 1]                \* &repos[repo_idx]

RangeSeqDescending(n) == [k \in 1..n |-> n - k]
\* (0..total_repos).collect::<Vec<_>>()
RangeSeq(n) == [k \in 1..n |-> k - 1]

SeqToSet(s) == {s[k] : k \in 1..Len(s)}

EffectiveCountUnclamped(p, total) == p
EffectiveCountOneMore(p, total) == Min(p, total) + 1
\* let parallel_count = std::cmp::min(parallel_count, total_repos);
EffectiveCount(p, total) == Min(p, total)

Effective == EffectiveCount(parallel_count, total_repos)

\* a configuration: a function from the codebases it holds to their lists
MkCfg(hasT, t, hasO, o) ==
    [c \in (IF hasT THEN {Target} ELSE {}) \cup (IF hasO THEN {Other} ELSE {}) |->
        IF c = Target THEN t ELSE o]

\* ------------------------------------------------------- git.rs: paths
GetRepoPathFlat(codebase, repo_name) == <<codebase>>
\* PathBuf::from(codebase).join(repo_name): the components of the path
get_repo_path(codebase, repo_name) == <<codebase, repo_name>>

\* ------------------------------------------------------- config.rs
RECURSIVE AddLoopNoSkip(_, _, _)
AddLoopNoSkip(list, added, reqs) ==
    IF reqs = <<>> THEN [list |-> list, added |-> added]
    ELSE AddLoopNoSkip(Append(list, Head(reqs)), Append(added, Head(reqs)), Tail(reqs))

RECURSIVE AddLoop(_, _, _)
\* for repo in repos { if codebase_repos.contains(repo) { skip } else { push, push } }
AddLoop(list, added, reqs) ==
    IF reqs = <<>> THEN [list |-> list, added |-> added]
    ELSE IF Head(reqs) \in SeqToSet(list)
           THEN AddLoop(list, added, Tail(reqs))
           ELSE AddLoop(Append(list, Head(reqs)), Append(added, Head(reqs)), Tail(reqs))

\* Config::add_repositories: entry(codebase).or_default(), then the loop;
\* returns the names that were actually added
add_repositories(cfg, c, reqs) ==
    LET r == AddLoop(IF c \in DOMAIN cfg THEN cfg[c] ELSE <<>>, <<>>, reqs)
    IN  [cfg |-> [k \in DOMAIN cfg \cup {c} |-> IF k = c THEN r.list ELSE cfg[k]],
         added |-> r.added]

RetainAll(list, repo) == list
\* codebase_repos.retain(|r| r != repo)
Retain(list, repo) == SelectSeq(list, LAMBDA x : x # repo)

RECURSIVE RemoveLoopSkipMissing(_, _)
RemoveLoopSkipMissing(list, reqs) ==
    IF reqs = <<>> THEN [err |-> "none", list |-> list]
    ELSE RemoveLoopSkipMissing(Retain(list, Head(reqs)), Tail(reqs))

RECURSIVE RemoveLoop(_, _)
\* for repo in repos { if !contains(repo) { return Err(RepositoryNotFound) } retain }
\* the list is changed in place, so an error keeps the removals made before it
RemoveLoop(list, reqs) ==
    IF reqs = <<>> THEN [err |-> "none", list |-> list]
    ELSE IF Head(reqs) \notin SeqToSet(list)
           THEN [err |-> "RepositoryNotFound", list |-> list]
           ELSE RemoveLoop(Retain(list, Head(reqs)), Tail(reqs))

\* Config::remove_repositories
remove_repositories(cfg, c, reqs) ==
    IF c \notin DOMAIN cfg
      THEN [err |-> "CodebaseNotFound", cfg |-> cfg]
      ELSE LET r == RemoveLoop(cfg[c], reqs)
           IN  [err |-> r.err, cfg |-> [cfg EXCEPT ![c] = r.list]]

\* ------------------------------------------- add.rs: message and its parse
\* The text of CommandFailed is a sequence of tokens: ": " and ", " are the
\* separators the code writes and splits on, a repository name is written as
\* the tokens it is made of (one token, unless the name holds a separator).
\* A repository name is any string of the command line. OddName is a name that
\* has the separator ", " in it: written out it is the name of one repository,
\* the separator, the name of another.
OddName == "a, b"
Chars(name) == IF name = OddName THEN <<NameList[1], ", ", NameList[2]>> ELSE <<name>>

RECURSIVE JoinWith(_, _)
\* failed_repos.join(", ")
JoinWith(names, sep) ==
    IF names = <<>> THEN <<>>
    ELSE IF Len(names) = 1 THEN Chars(names[1])
    ELSE Chars(names[1]) \o <<sep>> \o JoinWith(Tail(names), sep)

\* format!("{} repositories failed to clone: {}", errors_list.len(), failed.join(", "))
FailedMessage(errs) ==
    <<ToString(Len(errs)), " repositories failed to clone", ": ">> \o JoinWith(errs, ", ")

RECURSIVE SplitFrom(_, _, _)
\* str::split(sep): the pieces between the separators, empty pieces included
SplitFrom(tokens, sep, piece) ==
    IF tokens = <<>> THEN <<piece>>
    ELSE IF Head(tokens) = sep
           THEN <<piece>> \o SplitFrom(Tail(tokens), sep, <<>>)
           ELSE SplitFrom(Tail(tokens), sep, Append(piece, Head(tokens)))

Split(tokens, sep) == SplitFrom(tokens, sep, <<>>)

\* a piece as one string: a single token is that token
PieceName(piece) == IF Len(piece) = 1 THEN piece[1] ELSE piece

\* get_failed_repositories: msg.split(": ").nth(1), then split(", ")
get_failed_repositories(msg) ==
    LET parts == Split(msg, ": ")
    IN  IF Len(parts) >= 2
          THEN LET pieces == Split(parts[2], ", ")
               IN  [k \in 1..Len(pieces) |-> PieceName(pieces[k])]
          ELSE <<>>

\* ------------------------------------------------------------------- Init
\* no clone invocation, Config call or build_repo_url call is being followed
\* no concurrent clone is followed and no mutex is locked
\* no remove command and no install of all codebases is followed
NoCommand ==
    /\ rm = [pc |-> "none"]
    /\ inst = [pc |-> "none"]

NoFine ==
    /\ credPool = [pc |-> "none"]
    /\ locks = [m \in Mutexes |-> NoOwner]
    /\ NoCommand

NoUnit ==
    /\ cred = [pc |-> "none"]
    /\ cfgop = [op |-> "none"]
    /\ url = [pc |-> "none"]
    /\ NoFine

FreshPool(n) ==
    /\ remaining_repos = RangeSeq(n)
    /\ errors = <<>>
    /\ already_installed_repos = <<>>
    /\ completed_repos = 0
    /\ progressPos = 0
    /\ wpc = [w \in Workers |-> "idle"]
    /\ wjob = [w \in Workers |-> NoJob]

InitInstall ==
    /\ flow = "install"
    /\ run = 1
    /\ parallel_count \in 0..MaxParallel
    /\ \E n \in 0..MaxRepos : repos = [k \in 1..n |-> NameList[k]]
    /\ diskCfg = MkCfg(TRUE, repos, FALSE, <<>>)
    /\ startCfg = diskCfg
    /\ request = <<>>
    /\ toRemove = <<>>
    /\ rollback = "none"
    /\ NoUnit
    /\ exists \in SUBSET SeqToSet(repos)
    /\ startExists = exists
    /\ leftBehind = {}
    /\ FreshPool(Len(repos))
    /\ spawned = 0
    /\ joined = 0
    /\ mainPc = "start"
    /\ batchResult = "none"
    /\ report = "none"
    /\ reportedNew = 0
    /\ cmdResult = "none"
    /\ taken = [i \in JobIndices |-> 0]
    /\ executed = [i \in JobIndices |-> 0]
    /\ cloneCalls = [i \in JobIndices |-> 0]
    /\ outcome = [i \in JobIndices |-> "none"]

Init == InitInstall

\* the configurations an add command is tried on
\* the list of the codebase before the add: empty, one of the names that can be
\* requested, or a name that is never requested
TargetLists == {<<>>} \cup {<<x>> : x \in Names} \cup {<<NeverRequested>>}
InitConfigs ==
    {MkCfg(TRUE, t, hasO, <<NameList[1]>>) : t \in TargetLists, hasO \in BOOLEAN}
    \cup {MkCfg(FALSE, <<>>, hasO, <<NameList[1]>>) : hasO \in BOOLEAN}

\* the repository lists given to add (duplicates allowed, empty included)
Requests == UNION {[1..n -> Names] : n \in 0..MaxRepos}

\* the repository lists given to add: any strings, OddName among them
AddRequests == UNION {[1..n -> Names \cup {OddName}] : n \in 0..MaxRepos}

InitAdd ==
    /\ flow = "add"
    /\ run = 1
    /\ parallel_count = AddParallelCount
    /\ request \in AddRequests
    /\ diskCfg \in InitConfigs
    /\ startCfg = diskCfg
    /\ repos = <<>>
    /\ exists \in SUBSET Names
    /\ startExists = exists
    /\ leftBehind = {}
    /\ toRemove = <<>>
    /\ rollback = "none"
    /\ NoUnit
    /\ FreshPool(0)
    /\ spawned = 0
    /\ joined = 0
    /\ mainPc = "add"
    /\ batchResult = "none"
    /\ report = "none"
    /\ reportedNew = 0
    /\ cmdResult = "none"
    /\ taken = [i \in JobIndices |-> 0]
    /\ executed = [i \in JobIndices |-> 0]
    /\ cloneCalls = [i \in JobIndices |-> 0]
    /\ outcome = [i \in JobIndices |-> "none"]


\* ------------------------------------------------------------ main thread
\* if repos.is_empty() { return Ok(()) }, else set up the shared data.
Start ==
    /\ mainPc = "start"
    /\ IF total_repos = 0
         THEN /\ mainPc' = "returned"
              /\ batchResult' = "Ok"
              /\ cmdResult' = "Ok"
              /\ report' = "empty"
         ELSE /\ mainPc' = IF Effective = 0 THEN "verdict" ELSE "spawn"
              /\ UNCHANGED <<batchResult, cmdResult, report>>
    /\ UNCHANGED <<spawned, joined, reportedNew, exists>>
    /\ UNCHANGED <<poolVars, ghostVars, inputVars>>

\* for _ in 0..parallel_count { handles.push(thread::spawn(...)) }
Spawn ==
    /\ mainPc = "spawn"
    /\ spawned < Effective
    /\ spawned' = spawned + 1
    /\ wpc' = [wpc EXCEPT ![spawned + 1] = "take"]
    /\ mainPc' = IF spawned + 1 = Effective THEN "join" ELSE "spawn"
    /\ UNCHANGED <<remaining_repos, errors, already_installed_repos, completed_repos, progressPos, wjob>>
    /\ UNCHANGED <<joined, batchResult, report, reportedNew, cmdResult, exists>>
    /\ UNCHANGED <<ghostVars, inputVars>>

JoinReadyNoWait(w) == TRUE
\* handle.join() returns once the thread behind the handle has finished
JoinReady(w) == wpc[w] = "done"

\* for handle in handles { let _ = handle.join(); }
Join ==
    /\ mainPc = "join"
    /\ joined < spawned
    /\ JoinReady(joined + 1)
    /\ joined' = joined + 1
    /\ mainPc' = IF joined + 1 = spawned THEN "verdict" ELSE "join"
    /\ UNCHANGED <<spawned, batchResult, report, reportedNew, cmdResult, exists>>
    /\ UNCHANGED <<poolVars, ghostVars, inputVars>>

BatchVerdictAllFailed(errs, total) == IF Len(errs) = total THEN "Err" ELSE "Ok"
\* if !errors_list.is_empty() { return Err(CommandFailed(..)) } ... Ok(())
BatchVerdict(errs, total) == IF errs # <<>> THEN "Err" ELSE "Ok"

\* let newly_installed = total_repos - already_installed.len() - errors.len();
newly_installed == total_repos - Len(already_installed_repos) - Len(errors)

\* the closing message of clone_repositories
Report ==
    IF errors # <<>> THEN "completed with errors"
    ELSE IF Len(already_installed_repos) = total_repos THEN "already up to date"
    ELSE IF newly_installed > 0 THEN "successfully installed"
    ELSE "no new repositories"

\* install.rs: everything after the join loop
Verdict ==
    /\ mainPc = "verdict"
    /\ flow = "install"
    /\ reportedNew' = newly_installed
    /\ report' = Report
    /\ batchResult' = BatchVerdict(errors, total_repos)
    /\ cmdResult' = BatchVerdict(errors, total_repos)
    /\ mainPc' = "returned"
    /\ UNCHANGED <<spawned, joined, exists>>
    /\ UNCHANGED <<poolVars, ghostVars, inputVars>>

\* ---------------------------------------------------------------- workers
AfterRemoveKeeps(remaining) == remaining
\* remaining.remove(0): what the pending list holds after the call
AfterRemove(remaining) == Tail(remaining)

\* let repo_idx = { lock; if remaining.is_empty() { break; } remaining.remove(0) };
Take(w) ==
    /\ wpc[w] = "take"
    /\ IF remaining_repos = <<>>
         THEN /\ wpc' = [wpc EXCEPT ![w] = "done"]
              /\ UNCHANGED <<remaining_repos, wjob, taken>>
         ELSE /\ wjob' = [wjob EXCEPT ![w] = Head(remaining_repos)]
              /\ taken' = [taken EXCEPT ![Head(remaining_repos)] = @ + 1]
              /\ remaining_repos' = AfterRemove(remaining_repos)
              /\ wpc' = [wpc EXCEPT ![w] = "check"]
    /\ UNCHANGED <<errors, already_installed_repos, completed_repos, progressPos, exists>>
    /\ UNCHANGED <<executed, cloneCalls, outcome, mainVars, inputVars>>

PathExistsNever(name) == FALSE
\* repo_path.exists()
PathExists(name) == name \in exists

\* if repo_path.exists() { already_installed.push(repo) } else { clone }
Check(w) ==
    /\ wpc[w] = "check"
    /\ executed' = [executed EXCEPT ![wjob[w]] = @ + 1]
    /\ IF PathExists(NameOf(wjob[w]))
         THEN /\ already_installed_repos' = IF flow = "install" THEN Append(already_installed_repos, NameOf(wjob[w]))
                                               ELSE already_installed_repos
              /\ outcome' = [outcome EXCEPT ![wjob[w]] = "present"]
              /\ wpc' = [wpc EXCEPT ![w] = "progress"]
         ELSE /\ wpc' = [wpc EXCEPT ![w] = "clone"]
              /\ UNCHANGED <<already_installed_repos, outcome>>
    /\ UNCHANGED <<remaining_repos, errors, completed_repos, progressPos, wjob, exists, cloneCalls, taken>>
    /\ UNCHANGED <<mainVars, inputVars>>

AfterFailedCloneStop == "done"
\* Err(e) => { ...; errors_list.push(..) } and the loop goes on
AfterFailedClone == "progress"

\* match GitRepo::clone(&repo_url, &repo_path): the transport succeeds or fails,
\* and a failure may leave the target directory behind.
Clone(w) ==
    /\ wpc[w] = "clone"
    /\ cloneCalls' = [cloneCalls EXCEPT ![wjob[w]] = @ + 1]
    /\ \E ok \in BOOLEAN, leftover \in BOOLEAN :
         IF ok
           THEN /\ leftover
                /\ exists' = exists \cup {NameOf(wjob[w])}
                /\ outcome' = [outcome EXCEPT ![wjob[w]] = "cloned"]
                /\ wpc' = [wpc EXCEPT ![w] = "progress"]
           ELSE /\ exists' = IF leftover THEN exists \cup {NameOf(wjob[w])} ELSE exists
                /\ outcome' = [outcome EXCEPT ![wjob[w]] = "failed"]
                /\ wpc' = [wpc EXCEPT ![w] = "error"]
    /\ UNCHANGED <<remaining_repos, errors, already_installed_repos, completed_repos, progressPos, wjob, executed, taken>>
    /\ UNCHANGED <<mainVars, inputVars>>

\* let mut errors_list = errors.lock().unwrap(); errors_list.push((repo, msg));
RecordError(w) ==
    /\ wpc[w] = "error"
    /\ errors' = Append(errors, NameOf(wjob[w]))
    /\ wpc' = [wpc EXCEPT ![w] = AfterFailedClone]
    /\ UNCHANGED <<remaining_repos, already_installed_repos, completed_repos, progressPos, wjob, exists>>
    /\ UNCHANGED <<ghostVars, mainVars, inputVars>>

AdvanceTwice(completed) == completed + 2
\* *completed += 1;
Advance(completed) == completed + 1

\* { lock; *completed += 1; progress_bar.set_position(*completed) }
Progress(w) ==
    /\ wpc[w] = "progress"
    /\ completed_repos' = Advance(completed_repos)
    /\ progressPos' = Advance(completed_repos)
    /\ wpc' = [wpc EXCEPT ![w] = "take"]
    /\ wjob' = [wjob EXCEPT ![w] = NoJob]
    /\ UNCHANGED <<remaining_repos, errors, already_installed_repos, exists>>
    /\ UNCHANGED <<ghostVars, mainVars, inputVars>>

\* The same command is run a second time, right after the first one returned:
\* same configuration, the disk as the first run left it.
SecondRun ==
    /\ flow = "install"
    /\ run = 1
    /\ mainPc = "returned"
    /\ run' = 2
    /\ parallel_count' \in 0..MaxParallel
    /\ startExists' = exists
    /\ leftBehind' = {NameOf(i) : i \in {j \in Indices : outcome[j] = "failed"}} \cap exists
    /\ remaining_repos' = RangeSeq(total_repos)
    /\ errors' = <<>>
    /\ already_installed_repos' = <<>>
    /\ completed_repos' = 0
    /\ progressPos' = 0
    /\ wpc' = [w \in Workers |-> "idle"]
    /\ wjob' = [w \in Workers |-> NoJob]
    /\ spawned' = 0
    /\ joined' = 0
    /\ mainPc' = "start"
    /\ batchResult' = "none"
    /\ report' = "none"
    /\ reportedNew' = 0
    /\ cmdResult' = "none"
    /\ taken' = [i \in JobIndices |-> 0]
    /\ executed' = [i \in JobIndices |-> 0]
    /\ cloneCalls' = [i \in JobIndices |-> 0]
    /\ outcome' = [i \in JobIndices |-> "none"]
    /\ UNCHANGED <<flow, repos, exists, addVars, unitVars>>

\* --------------------------------------------------------- config.rs: save
\* Config::save writes config.yaml and codebases.yaml independently and returns
\* the first error: "ok" both written, "config.yaml failed" only codebases.yaml
\* written, "codebases.yaml failed" codebases.yaml not written (a failing
\* ensure_basecamp_dir writes nothing as well)
SaveOutcomes == {"ok", "config.yaml failed", "codebases.yaml failed"}

\* config_result?; codebases_result?; Ok(())
SaveIsOk(o) == o = "ok"

\* let codebases_result = self.save_codebases(): what codebases.yaml holds after
save(disk, cfg, o) == IF o = "codebases.yaml failed" THEN disk ELSE cfg

\* ------------------------------------------------------- add.rs: execute
\* add.rs execute up to the call of install_new_repositories: reject an empty
\* request, add the names to the configuration, save it (the save may fail).
AddExecute ==
    /\ mainPc = "add"
    /\ IF request = <<>>
         THEN /\ cmdResult' = "Err"
              /\ mainPc' = "returned"
              /\ UNCHANGED <<diskCfg, repos, remaining_repos>>
         ELSE \E o \in SaveOutcomes :
                LET r == add_repositories(diskCfg, Target, request)
                IN  IF ~SaveIsOk(o)
                      THEN /\ cmdResult' = "Err"
                           /\ mainPc' = "returned"
                           /\ diskCfg' = save(diskCfg, r.cfg, o)
                           /\ UNCHANGED <<repos, remaining_repos>>
                      ELSE /\ diskCfg' = save(diskCfg, r.cfg, o)
                           /\ repos' = r.added
                           /\ remaining_repos' = RangeSeq(Len(r.added))
                           /\ IF r.added = <<>>
                                THEN /\ cmdResult' = "Ok"
                                     /\ mainPc' = "returned"
                                ELSE /\ mainPc' = "start"
                                     /\ UNCHANGED cmdResult
    /\ UNCHANGED <<flow, run, parallel_count, startExists, leftBehind, request, toRemove, rollback>>
    /\ UNCHANGED <<startCfg, unitVars>>
    /\ UNCHANGED <<errors, already_installed_repos, completed_repos, progressPos, wpc, wjob, exists>>
    /\ UNCHANGED <<spawned, joined, batchResult, report, reportedNew>>
    /\ UNCHANGED ghostVars

\* execute ends with Ok(()) after the match on install_new_repositories,
\* in the Ok arm and in the Err arm alike
AddResult(batch) == "Ok"

\* install_new_repositories after the join loop: Err(CommandFailed(message)) when
\* the error list is not empty, else Ok; on Ok execute returns
AddVerdict ==
    /\ mainPc = "verdict"
    /\ flow = "add"
    /\ batchResult' = BatchVerdict(errors, total_repos)
    /\ report' = IF errors # <<>> THEN FailedMessage(errors) ELSE "completed"
    /\ IF errors # <<>>
         THEN /\ mainPc' = "rollback"
              /\ UNCHANGED cmdResult
         ELSE /\ mainPc' = "returned"
              /\ cmdResult' = AddResult("Ok")
    /\ UNCHANGED <<spawned, joined, reportedNew, exists>>
    /\ UNCHANGED <<poolVars, ghostVars, inputVars>>

\* the Err arm of execute: parse the failed names out of the message, reload the
\* configuration, remove the names, save; each step may fail and is only reported
Rollback ==
    /\ mainPc = "rollback"
    /\ LET failed == get_failed_repositories(report)
       IN  IF failed = <<>>
             THEN /\ rollback' = "nothing to remove"
                  /\ UNCHANGED <<diskCfg, toRemove>>
             ELSE /\ toRemove' = failed
                  /\ \E loadOk \in BOOLEAN, o \in SaveOutcomes :
                       LET r == remove_repositories(diskCfg, Target, failed)
                       IN  IF ~loadOk
                             THEN /\ o = "ok"
                                  /\ rollback' = "reload failed"
                                  /\ UNCHANGED diskCfg
                             ELSE IF r.err # "none"
                               THEN /\ o = "ok"
                                    /\ rollback' = "remove failed"
                                    /\ UNCHANGED diskCfg
                               ELSE /\ rollback' = IF SaveIsOk(o) THEN "removed"
                                                                  ELSE "save failed"
                                    /\ diskCfg' = save(diskCfg, r.cfg, o)
    /\ cmdResult' = AddResult(batchResult)
    /\ mainPc' = "returned"
    /\ UNCHANGED <<flow, run, parallel_count, repos, startExists, leftBehind, request, startCfg,
                   unitVars>>
    /\ UNCHANGED <<spawned, joined, batchResult, report, reportedNew, exists>>
    /\ UNCHANGED <<poolVars, ghostVars>>

Worker(w) == Take(w) \/ Check(w) \/ Clone(w) \/ RecordError(w) \/ Progress(w)

Next ==
    \/ Start
    \/ Spawn
    \/ Join
    \/ Verdict
    \/ SecondRun
    \/ \E w \in Workers : Worker(w)

Spec == Init /\ [][Next]_vars

\* One run of the batch function with its threads scheduled fairly: the main
\* thread and every spawned worker are operating-system threads, each takes its
\* next step whenever it stays able to, and GitRepo::clone returns.
MainThread == Start \/ Spawn \/ Join \/ Verdict

NextLive ==
    \/ MainThread
    \/ \E w \in Workers : Worker(w)

Fairness ==
    /\ WF_vars(MainThread)
    /\ \A w \in Workers : WF_vars(Worker(w))

SpecLive == Init /\ [][NextLive]_vars /\ Fairness

NextAdd ==
    \/ AddExecute
    \/ Start
    \/ Spawn
    \/ Join
    \/ AddVerdict
    \/ Rollback
    \/ \E w \in Workers : Worker(w)

SpecAdd == InitAdd /\ [][NextAdd]_vars

\* ----------------- install.rs: the worker loop with its mutex operations
\* The four shared values are Mutexes; a worker locks one, runs the statement
\* that uses it, and the guard is dropped where its scope ends. Here locking,
\* the statement and the drop of the guard are steps of their own.

\* the mutex that the statement worker w stands at works on, or "none"
Needs(w) ==
    CASE wpc[w] = "take" -> "remaining_repos"
      [] wpc[w] = "check" /\ flow = "install" /\ PathExists(NameOf(wjob[w]))
             -> "already_installed_repos"
      [] wpc[w] = "error" -> "errors"
      [] wpc[w] = "progress" -> "completed_repos"
      [] OTHER -> "none"

\* the mutexes whose guard worker w has
HeldBy(w) == {m \in Mutexes : locks[m] = w}

GuardScopeLoop(m) ==
    IF m = "remaining_repos" THEN {"check", "clone", "error", "progress"} ELSE {}
GuardScopeMatch(m) == IF m = "errors" THEN {"progress"} ELSE {}
\* The positions of the loop body, after the statement that uses m, at which
\* the guard of m is still in scope. Every guard is a local of the block, the
\* branch or the match arm that locks it, and that ends with the statement.
GuardScope(m) == {}

\* x.lock().unwrap(): returns once the mutex is free; the guards that went out
\* of scope before have been dropped
Lock(w) ==
    /\ Needs(w) # "none"
    /\ locks[Needs(w)] = NoOwner
    /\ \A m \in HeldBy(w) : wpc[w] \in GuardScope(m)
    /\ locks' = [locks EXCEPT ![Needs(w)] = w]
    /\ UNCHANGED <<batchVars, diskCfg, rm, inst, cred, cfgop, url, credPool>>

\* the guard of a mutex goes out of scope after its statement: the mutex is free
Unlock(w) ==
    /\ \E m \in HeldBy(w) :
          /\ Needs(w) # m
          /\ wpc[w] \notin GuardScope(m)
          /\ locks' = [locks EXCEPT ![m] = NoOwner]
    /\ UNCHANGED <<batchVars, diskCfg, rm, inst, cred, cfgop, url, credPool>>

\* one statement of the loop body, run with the guard it needs and no guard
\* that is out of scope
Statement(w) ==
    /\ Needs(w) # "none" => locks[Needs(w)] = w
    /\ \A m \in HeldBy(w) : m = Needs(w) \/ wpc[w] \in GuardScope(m)
    /\ Worker(w)

\* handle.join() returns for a thread that has ended, its guards dropped
JoinEnded ==
    /\ \A w \in Workers : wpc[w] = "done" => HeldBy(w) = {}
    /\ Join

\* the thread that called the batch function, as the holder of a mutex
Caller == NoOwner + 1

\* the mutexes the batch function locks after the join loop, in this order:
\* already_installed_repos (216), errors (220); add.rs has errors only (305)
CallerLocks ==
    IF flow = "install" THEN <<"already_installed_repos", "errors">> ELSE <<"errors">>

HeldByCaller == {m \in Mutexes : locks[m] = Caller}

\* already_installed_repos.lock().unwrap(), errors.lock().unwrap()
CallerLock ==
    /\ mainPc = "verdict"
    /\ \E k \in 1..Len(CallerLocks) :
          /\ \A j \in 1..(k - 1) : locks[CallerLocks[j]] = Caller
          /\ locks[CallerLocks[k]] = NoOwner
          /\ locks' = [locks EXCEPT ![CallerLocks[k]] = Caller]
    /\ UNCHANGED <<batchVars, diskCfg, rm, inst, cred, cfgop, url, credPool>>

\* everything after the join loop, with the guards it reads the lists through
VerdictLocked ==
    /\ \A k \in 1..Len(CallerLocks) : locks[CallerLocks[k]] = Caller
    /\ Verdict

\* the batch function has returned: its guards are dropped
CallerUnlock ==
    /\ mainPc = "returned"
    /\ HeldByCaller # {}
    /\ locks' = [m \in Mutexes |-> IF locks[m] = Caller THEN NoOwner ELSE locks[m]]
    /\ UNCHANGED <<batchVars, diskCfg, rm, inst, cred, cfgop, url, credPool>>

NextLocks ==
    \/ Start
    \/ Spawn
    \/ JoinEnded
    \/ CallerLock
    \/ VerdictLocked
    \/ CallerUnlock
    \/ \E w \in Workers : Lock(w)
    \/ \E w \in Workers : Statement(w)
    \/ \E w \in Workers : Unlock(w)

SpecLocks == Init /\ [][NextLocks]_vars

\* ------------------------------------------ the batch variables at rest
\* the state of the batch variables while a single function is followed
IdleBatch ==
    /\ flow = "none"
    /\ run = 1
    /\ parallel_count = 0
    /\ repos = <<>>
    /\ exists = {}
    /\ startExists = {}
    /\ leftBehind = {}
    /\ FreshPool(0)
    /\ spawned = 0
    /\ joined = 0
    /\ mainPc = "none"
    /\ batchResult = "none"
    /\ report = "none"
    /\ reportedNew = 0
    /\ cmdResult = "none"
    /\ taken = [i \in JobIndices |-> 0]
    /\ executed = [i \in JobIndices |-> 0]
    /\ cloneCalls = [i \in JobIndices |-> 0]
    /\ outcome = [i \in JobIndices |-> "none"]
    /\ diskCfg = MkCfg(FALSE, <<>>, FALSE, <<>>)
    /\ startCfg = diskCfg
    /\ request = <<>>
    /\ toRemove = <<>>
    /\ rollback = "none"

\* ------------------------------------- git.rs: the credential callback
NoKey == StandardKeys + MaxExtraKeys     \* stands for "no key selected"

\* A clone URL is a sequence of pieces: a user or host name, "@", ":", "/",
\* "https:" and "o", a run of other characters.
CloneUrls ==
    { <<"git", "@", "host", ":", "o">>,
      <<"alice", "@", "host", ":", "o">>,
      <<"https:", "/", "/", "host", "/", "o">>,
      <<"git", "@", "host">>,
      <<"host", ":", "o">> }

\* let is_ssh_url = url.starts_with("git@");
is_ssh_url(u) == Len(u) >= 2 /\ u[1] = "git" /\ u[2] = "@"

\* url.split('@').nth(1).and_then(|s| s.split(':').next()).unwrap_or("git"),
\* or "git" when the URL is not an SSH URL
UsernameOf(u) ==
    IF is_ssh_url(u)
      THEN LET parts == Split(u, "@")
           IN  IF Len(parts) >= 2 THEN Split(parts[2], ":")[1] ELSE <<"git">>
      ELSE <<"git">>

NoUser == <<>>                   \* username_from_url is None
TransportUser == <<"t">>         \* a username the transport supplies

\* let username = username_from_url.unwrap_or(username);
EffectiveUsername(username_from_url, username) ==
    IF username_from_url = NoUser THEN username ELSE username_from_url

\* the six key_attempts.push of the standard names, in their order
StandardNames ==
    <<"id_ed25519", "id_rsa", "id_ecdsa", "id_dsa", "github_rsa", "github_ed25519">>

\* key_attempts as the closure builds it: the standard names, then the
\* IdentityFile lines of ~/.ssh/config, then the files found in ~/.ssh
key_attempts(identity, scanned) ==
    StandardNames \o [k \in 1..identity |-> "IdentityFile"]
                  \o [k \in 1..scanned |-> "scanned"]

TooManyAttemptsLate(current_attempt) == current_attempt > MaxAuthAttempts + 1
\* if current_attempt > 5 { return Err("Too many authentication attempts") }
TooManyAttempts(current_attempt) == current_attempt > MaxAuthAttempts

UserPassIgnored(userPass) == FALSE
\* if allowed_types.contains(git2::CredentialType::USER_PASS_PLAINTEXT)
UserPassAllowed(userPass) == userPass

AgentAttemptAlways(current_attempt) == TRUE
\* if current_attempt == 0 { ... Cred::ssh_key_from_agent(username) ... }
AgentAttempt(current_attempt) == current_attempt = 0

AdjustedAttemptSame(current_attempt) == current_attempt
\* let adjusted_attempt = if current_attempt == 0 { 0 } else { current_attempt - 1 };
AdjustedAttempt(current_attempt) ==
    IF current_attempt = 0 THEN 0 ELSE current_attempt - 1

\* let key_index = adjusted_attempt as usize % key_attempts.len();
KeyIndex(current_attempt, count) == AdjustedAttempt(current_attempt) % count

\* The closure given to callbacks.credentials, for attempt number current_attempt:
\*   from_url : username_from_url              userPass : allowed_types contains
\*   agentOk  : ssh_key_from_agent returns Ok             USER_PASS_PLAINTEXT
\*   keyOk    : the selected key file exists and Cred::ssh_key returns Ok
\*   keys     : key_attempts
\* The answer tells what was returned (kind), for which user, whether the agent
\* was asked and which candidate was selected (selected, key).
Credentials(current_attempt, from_url, username, userPass, agentOk, keyOk, keys) ==
    LET base == [attempt |-> current_attempt, kind |-> "exhausted",
                 username |-> NoUser, from_url |-> from_url, userPass |-> userPass,
                 agentOk |-> agentOk, keyOk |-> keyOk,
                 agent |-> FALSE, selected |-> NoKey, key |-> "none"]
        user == EffectiveUsername(from_url, username)
        key_index == KeyIndex(current_attempt, Len(keys))
    IN  IF TooManyAttempts(current_attempt)
          THEN base
        ELSE IF UserPassAllowed(userPass)
          THEN [base EXCEPT !.kind = "default", !.username = user]
        ELSE IF AgentAttempt(current_attempt) /\ agentOk
          THEN [base EXCEPT !.kind = "agent", !.username = user, !.agent = TRUE]
        ELSE [base EXCEPT !.kind = IF keyOk THEN "key" ELSE "default",
                          !.username = user,
                          !.agent = AgentAttempt(current_attempt),
                          !.selected = key_index,
                          !.key = keys[key_index + 1]]

NoAnswer == [attempt |-> 0, kind |-> "none", username |-> NoUser, from_url |-> NoUser,
             userPass |-> FALSE, agentOk |-> FALSE, keyOk |-> FALSE,
             agent |-> FALSE, selected |-> NoKey, key |-> "none"]

InitCred ==
    /\ IdleBatch
    /\ NoFine
    /\ cred = [pc |-> "idle", url |-> <<>>, username |-> NoUser, attempt_count |-> 0,
               extra |-> 0, keys |-> StandardNames, last |-> NoAnswer, granted |-> 0,
               picked |-> {}, selections |-> 0]
    /\ cfgop = [op |-> "none"]
    /\ url = [pc |-> "none"]

\* GitRepo::clone up to builder.clone: the username is derived from the URL,
\* let attempt_count = Cell::new(0); the key candidates beyond the standard ones
\* are what ~/.ssh holds
CloneStart ==
    /\ cred.pc \in {"idle", "cloned", "failed"}
    /\ \E u \in CloneUrls, identity \in 0..MaxExtraKeys, scanned \in 0..MaxExtraKeys :
         /\ identity + scanned <= MaxExtraKeys
         /\ cred' = [pc |-> "transport", url |-> u, username |-> UsernameOf(u),
                     attempt_count |-> 0, extra |-> identity + scanned,
                     keys |-> key_attempts(identity, scanned),
                     last |-> NoAnswer, granted |-> 0,
                     picked |-> {}, selections |-> 0]
    /\ UNCHANGED <<batchVars, diskCfg, rm, inst, credPool, locks, cfgop, url>>

\* the transport asks for a credential: one invocation of the closure,
\* attempt_count.set(current_attempt + 1)
CredentialCallback ==
    /\ cred.pc = "transport"
    /\ cred.attempt_count < MaxCalls
    /\ \E from_url \in {NoUser, TransportUser} :
       \E userPass \in BOOLEAN, agentOk \in BOOLEAN, keyOk \in BOOLEAN :
         LET answer == Credentials(cred.attempt_count, from_url, cred.username,
                                   userPass, agentOk, keyOk, cred.keys)
         IN  cred' = [cred EXCEPT !.attempt_count = @ + 1,
                                  !.last = answer,
                                  !.granted = IF answer.kind = "exhausted"
                                                THEN @ ELSE @ + 1,
                                  !.picked = IF answer.selected = NoKey
                                               THEN @ ELSE @ \cup {answer.selected},
                                  !.selections = IF answer.selected = NoKey
                                                   THEN @ ELSE @ + 1]
    /\ UNCHANGED <<batchVars, diskCfg, rm, inst, credPool, locks, cfgop, url>>

\* builder.clone(url, path) returns: Ok(repo), or Err mapped to GitError; after
\* the closure has answered with an error the clone cannot succeed
TransportEnd ==
    /\ cred.pc = "transport"
    /\ \E ok \in BOOLEAN :
         /\ ok => cred.last.kind # "exhausted"
         /\ cred' = [cred EXCEPT !.pc = IF ok THEN "cloned" ELSE "failed"]
    /\ UNCHANGED <<batchVars, diskCfg, rm, inst, credPool, locks, cfgop, url>>

NextCred ==
    \/ CloneStart
    \/ CredentialCallback
    \/ TransportEnd

SpecCred == InitCred /\ [][NextCred]_vars

\* ----------------------------- git.rs: clone invocations run concurrently
\* Each worker thread calls GitRepo::clone for its job; every invocation makes
\* its own attempt_count cell. cell[CellOf(c)] is the cell the closure of the
\* invocation that thread c is running reads and writes.
CellOfShared(c) == MaxCloners
\* let attempt_count = std::cell::Cell::new(0); moved into the closure
CellOf(c) == c

IdleInvocation == [pc |-> "idle", calls |-> 0, attempt |-> 0, kind |-> "none",
                   later |-> FALSE]

InitCredPool ==
    /\ IdleBatch
    /\ cred = [pc |-> "none"]
    /\ cfgop = [op |-> "none"]
    /\ url = [pc |-> "none"]
    /\ locks = [m \in Mutexes |-> NoOwner]
    /\ NoCommand
    /\ credPool = [pc |-> "pool",
                   cell |-> [c \in Cloners |-> 0],
                   inv |-> [c \in Cloners |-> IdleInvocation]]

\* thread c enters GitRepo::clone for its next job: Cell::new(0)
PoolCloneStart(c) ==
    /\ credPool.pc = "pool"
    /\ credPool.inv[c].pc \in {"idle", "ended"}
    /\ credPool' = [credPool EXCEPT
           !.cell[CellOf(c)] = 0,
           !.inv[c] = [pc |-> "transport", calls |-> 0, attempt |-> 0,
                       kind |-> "none", later |-> credPool.inv[c].pc = "ended"]]
    /\ UNCHANGED <<batchVars, diskCfg, rm, inst, cred, cfgop, url, locks>>

\* the transport of thread c's invocation calls the closure once
PoolCallback(c) ==
    /\ credPool.pc = "pool"
    /\ credPool.inv[c].pc = "transport"
    /\ credPool.inv[c].calls < MaxCalls
    /\ \E userPass \in BOOLEAN :
         LET current_attempt == credPool.cell[CellOf(c)]
             answer == Credentials(current_attempt, NoUser, <<"git">>, userPass,
                                   FALSE, FALSE, StandardNames)
         IN  credPool' = [credPool EXCEPT
                 !.cell[CellOf(c)] = current_attempt + 1,
                 !.inv[c].calls = @ + 1,
                 !.inv[c].attempt = current_attempt,
                 !.inv[c].kind = IF answer.kind = "exhausted"
                                   THEN "exhausted" ELSE "credential"]
    /\ UNCHANGED <<batchVars, diskCfg, rm, inst, cred, cfgop, url, locks>>

\* builder.clone returns in thread c
PoolTransportEnd(c) ==
    /\ credPool.pc = "pool"
    /\ credPool.inv[c].pc = "transport"
    /\ credPool' = [credPool EXCEPT !.inv[c].pc = "ended"]
    /\ UNCHANGED <<batchVars, diskCfg, rm, inst, cred, cfgop, url, locks>>

NextCredPool ==
    \/ \E c \in Cloners : PoolCloneStart(c)
    \/ \E c \in Cloners : PoolCallback(c)
    \/ \E c \in Cloners : PoolTransportEnd(c)

SpecCredPool == InitCredPool /\ [][NextCredPool]_vars

\* ------------------------------------ install.rs: install_all_codebases
\* config.list_codebases() is the key set of a HashMap: the codebases in some
\* order, the same for the whole command
CodebaseOrders ==
    {<<>>, <<Target>>, <<Other>>, <<Target, Other>>, <<Other, Target>>}

\* the state of the jobs of a batch that has not started
FreshJobs(n) == [k \in 1..n |-> "pending"]

InitAll ==
    /\ IdleBatch
    /\ cred = [pc |-> "none"]
    /\ cfgop = [op |-> "none"]
    /\ url = [pc |-> "none"]
    /\ credPool = [pc |-> "none"]
    /\ locks = [m \in Mutexes |-> NoOwner]
    /\ rm = [pc |-> "none"]
    /\ \E order \in CodebaseOrders, parallel \in 0..MaxParallel :
       \E size \in [SeqToSet(order) -> 0..MaxRepos] :
         inst = [pc |-> "loop", order |-> order, idx |-> 1, parallel |-> parallel,
                 jobs |-> [c \in SeqToSet(order) |-> FreshJobs(size[c])],
                 result |-> "none", failedAt |-> 0, lateWork |-> FALSE]

\* the codebase whose turn it is
CurrentCodebase == inst.order[inst.idx]

AfterBatchGoesOn(result) == "loop"
\* clone_repositories(config, codebase, repos, parallel_count)?;
AfterBatch(result) == IF result = "Err" THEN "returned" ELSE "loop"

\* the head of 'for codebase in codebases': the loop ends with Ok(()), a
\* codebase without repositories is passed over, any other gets its batch
AllNext ==
    /\ inst.pc = "loop"
    /\ IF inst.idx > Len(inst.order)
         THEN inst' = [inst EXCEPT !.pc = "returned", !.result = "Ok"]
         ELSE IF inst.jobs[CurrentCodebase] = <<>>
                THEN inst' = [inst EXCEPT !.idx = @ + 1]
                ELSE inst' = [inst EXCEPT !.pc = "batch"]
    /\ UNCHANGED <<batchVars, diskCfg, rm, cred, cfgop, url, credPool, locks>>

\* the jobs of the running batch that a worker has taken and not finished
Running == {k \in DOMAIN inst.jobs[CurrentCodebase] : inst.jobs[CurrentCodebase][k] = "running"}
Pending == {k \in DOMAIN inst.jobs[CurrentCodebase] : inst.jobs[CurrentCodebase][k] = "pending"}

\* a worker of the running batch takes the smallest pending index
AllTake ==
    /\ inst.pc = "batch"
    /\ Pending # {}
    /\ Cardinality(Running) < EffectiveCount(inst.parallel, Len(inst.jobs[CurrentCodebase]))
    /\ LET k == CHOOSE j \in Pending : \A i \in Pending : j <= i
       IN  inst' = [inst EXCEPT !.jobs[CurrentCodebase][k] = "running",
                                !.lateWork = @ \/ inst.failedAt # 0]
    /\ UNCHANGED <<batchVars, diskCfg, rm, cred, cfgop, url, credPool, locks>>

\* a worker finishes its job: the path was there or the clone succeeded, or
\* the clone failed
AllFinish ==
    /\ inst.pc = "batch"
    /\ \E k \in Running : \E ok \in BOOLEAN :
         inst' = [inst EXCEPT !.jobs[CurrentCodebase][k] = IF ok THEN "ok" ELSE "failed"]
    /\ UNCHANGED <<batchVars, diskCfg, rm, cred, cfgop, url, credPool, locks>>

\* the batch function returns once its workers have ended: the pending list is
\* empty and no job is running, or there is no worker
AllBatchReturn ==
    /\ inst.pc = "batch"
    /\ Running = {}
    /\ Pending = {} \/ EffectiveCount(inst.parallel, Len(inst.jobs[CurrentCodebase])) = 0
    /\ LET jobs == inst.jobs[CurrentCodebase]
           result == IF \E k \in DOMAIN jobs : jobs[k] = "failed" THEN "Err" ELSE "Ok"
       IN  inst' = [inst EXCEPT
               !.pc = AfterBatch(result),
               !.result = IF AfterBatch(result) = "returned" THEN "Err" ELSE @,
               !.failedAt = IF result = "Err" /\ @ = 0 THEN inst.idx ELSE @,
               !.idx = IF AfterBatch(result) = "returned" THEN @ ELSE @ + 1]
    /\ UNCHANGED <<batchVars, diskCfg, rm, cred, cfgop, url, credPool, locks>>

NextAll ==
    \/ AllNext
    \/ AllTake
    \/ AllFinish
    \/ AllBatchReturn

SpecAll == InitAll /\ [][NextAll]_vars

\* ------------------------------------------- remove.rs: the remove command
\* What is at a repository's local path: nothing; a work tree with nothing to
\* commit whose branch equals its origin branch ("clean"); one with changes not
\* committed ("dirty"); one whose branch differs from its origin branch
\* ("ahead"); one whose branch has commits and no origin branch at all
\* ("unpublished"); a directory that Repository::open rejects ("broken").
DirStates == {"absent", "clean", "dirty", "ahead", "unpublished", "broken"}

\* GitRepo::has_uncommitted_changes: Repository::open(path)?, then
\* !statuses.is_empty()
has_uncommitted_changes(d) ==
    IF d = "broken" THEN "Err" ELSE IF d = "dirty" THEN "true" ELSE "false"

\* GitRepo::has_unpushed_commits: Repository::open(path)?, find_branch
\* origin/<branch> (none found: Ok(false)), then local_id != remote_id
has_unpushed_commits(d) ==
    IF d = "broken" THEN "Err"
    ELSE IF d = "unpublished" THEN "false"
    ELSE IF d = "ahead" THEN "true" ELSE "false"

\* the two checks made on a path that exists; "none" when both pass
CheckRepo(d) ==
    IF has_uncommitted_changes(d) = "Err" THEN "Git"
    ELSE IF has_uncommitted_changes(d) = "true" THEN "UncommittedChanges"
    ELSE IF has_unpushed_commits(d) = "Err" THEN "Git"
    ELSE IF has_unpushed_commits(d) = "true" THEN "UnpushedCommits"
    ELSE "none"

RECURSIVE CheckAll(_, _)
\* for repo in repos { if repo_path.exists() { the two checks, each with ? } }
CheckAll(names, dirs) ==
    IF names = <<>> THEN "none"
    ELSE IF dirs[Head(names)] # "absent" /\ CheckRepo(dirs[Head(names)]) # "none"
           THEN CheckRepo(dirs[Head(names)])
           ELSE CheckAll(Tail(names), dirs)

\* if !force { ...checks... }
ChecksRequired(force) == ~force

\* Config::remove_codebase
remove_codebase(cfg, c) ==
    IF c \notin DOMAIN cfg
      THEN [err |-> "CodebaseNotFound", cfg |-> cfg]
      ELSE [err |-> "none", cfg |-> [k \in DOMAIN cfg \ {c} |-> cfg[k]]]

\* the lists a codebase can hold: each name at most once
DistinctLists == {t \in Requests : Cardinality(SeqToSet(t)) = Len(t)}
RemoveConfigs ==
    {MkCfg(TRUE, t, FALSE, <<>>) : t \in DistinctLists} \cup {MkCfg(FALSE, <<>>, FALSE, <<>>)}

\* 'basecamp remove <codebase> [repositories] [--force]' after Config::load:
\* an empty request removes the whole codebase
InitRemove ==
    /\ IdleBatch
    /\ cred = [pc |-> "none"]
    /\ cfgop = [op |-> "none"]
    /\ url = [pc |-> "none"]
    /\ credPool = [pc |-> "none"]
    /\ locks = [m \in Mutexes |-> NoOwner]
    /\ inst = [pc |-> "none"]
    /\ \E request0 \in Requests, force \in BOOLEAN, cfg \in RemoveConfigs,
          dirs \in [Names -> DirStates], codebaseDir \in BOOLEAN :
         /\ (\E n \in Names : dirs[n] # "absent") => codebaseDir
         /\ rm = [pc |-> "start", request |-> request0, force |-> force,
                  cfg |-> cfg, saved |-> cfg, dirs |-> dirs, codebaseDir |-> codebaseDir,
                  cfg0 |-> cfg, dirs0 |-> dirs, codebaseDir0 |-> codebaseDir,
                  on_disk |-> <<>>, result |-> "none"]

\* the removal is of the whole codebase
RemovesCodebase == rm.request = <<>>

\* remove_codebase / remove_repositories up to the confirmation: the checks
RemoveCheck ==
    /\ rm.pc = "start"
    /\ IF RemovesCodebase
         THEN IF Target \notin DOMAIN rm.cfg
                THEN rm' = [rm EXCEPT !.pc = "returned", !.result = "CodebaseNotFound"]
                ELSE LET found == IF rm.codebaseDir /\ ChecksRequired(rm.force)
                                    THEN CheckAll(rm.cfg[Target], rm.dirs) ELSE "none"
                     IN  IF found # "none"
                           THEN rm' = [rm EXCEPT !.pc = "returned", !.result = found]
                           ELSE rm' = [rm EXCEPT !.pc = "confirm"]
         ELSE LET found == IF ChecksRequired(rm.force)
                             THEN CheckAll(rm.request, rm.dirs) ELSE "none"
              IN  IF found # "none"
                    THEN rm' = [rm EXCEPT !.pc = "returned", !.result = found]
                    ELSE rm' = [rm EXCEPT
                             !.pc = "confirm",
                             !.on_disk = SelectSeq(rm.request,
                                             LAMBDA n : rm.dirs[n] # "absent")]
    /\ UNCHANGED <<batchVars, diskCfg, cred, cfgop, url, credPool, locks, inst>>

\* let confirm = UI::confirm(..)?; if !confirm { return Ok(()) }
RemoveConfirm ==
    /\ rm.pc = "confirm"
    /\ \E answer \in {"yes", "no", "Err"} :
         rm' = CASE answer = "yes" -> [rm EXCEPT !.pc = "apply"]
                 [] answer = "no" -> [rm EXCEPT !.pc = "returned", !.result = "Ok"]
                 [] OTHER -> [rm EXCEPT !.pc = "returned", !.result = "Input"]
    /\ UNCHANGED <<batchVars, diskCfg, cred, cfgop, url, credPool, locks, inst>>

\* config.remove_codebase(..)? or config.remove_repositories(..)?, then
\* config.save(..)?
RemoveApply ==
    /\ rm.pc = "apply"
    /\ LET r == IF RemovesCodebase THEN remove_codebase(rm.cfg, Target)
                ELSE remove_repositories(rm.cfg, Target, rm.request)
       IN  IF r.err # "none"
             THEN rm' = [rm EXCEPT !.pc = "returned", !.result = r.err, !.cfg = r.cfg]
             ELSE \E o \in SaveOutcomes :
                    rm' = [rm EXCEPT
                        !.cfg = r.cfg,
                        !.saved = save(rm.saved, r.cfg, o),
                        !.pc = IF SaveIsOk(o) THEN "delete" ELSE "returned",
                        !.result = IF SaveIsOk(o) THEN "none" ELSE "Io"]
    /\ UNCHANGED <<batchVars, diskCfg, cred, cfgop, url, credPool, locks, inst>>

\* std::fs::remove_dir_all of the codebase directory or of each directory in
\* repos_on_disk; a failure is a warning only
RemoveDelete ==
    /\ rm.pc = "delete"
    /\ IF RemovesCodebase
         THEN \E ok \in BOOLEAN :
                rm' = IF rm.codebaseDir0 /\ ok
                        THEN [rm EXCEPT !.pc = "returned", !.result = "Ok",
                                        !.codebaseDir = FALSE,
                                        !.dirs = [n \in Names |-> "absent"]]
                        ELSE [rm EXCEPT !.pc = "returned", !.result = "Ok"]
         ELSE \E deleted \in SUBSET SeqToSet(rm.on_disk) :
                rm' = [rm EXCEPT !.pc = "returned", !.result = "Ok",
                                 !.dirs = [n \in Names |->
                                             IF n \in deleted THEN "absent" ELSE rm.dirs[n]]]
    /\ UNCHANGED <<batchVars, diskCfg, cred, cfgop, url, credPool, locks, inst>>

NextRemove ==
    \/ RemoveCheck
    \/ RemoveConfirm
    \/ RemoveApply
    \/ RemoveDelete

SpecRemove == InitRemove /\ [][NextRemove]_vars

\* --------------------------------- config.rs: calls on one Config object
\* the request lists tried on a codebase; the other codebase gets short ones
RequestsFor(c) == IF c = Target THEN Requests ELSE {<<>>, <<NameList[1]>>}

InitCfg ==
    /\ IdleBatch
    /\ NoFine
    /\ cred = [pc |-> "none"]
    /\ url = [pc |-> "none"]
    /\ \E cfg \in InitConfigs :
         cfgop = [op |-> "new", cfg |-> cfg, before |-> cfg, codebase |-> Target,
                  names |-> <<>>, err |-> "none", added |-> <<>>]

\* one call of Config::add_repositories(codebase, repos); it always returns Ok
CfgAdd ==
    /\ cfgop.op # "none"
    /\ \E c \in {Target, Other} : \E reqs \in RequestsFor(c) :
         LET r == add_repositories(cfgop.cfg, c, reqs)
         IN  cfgop' = [op |-> "add", cfg |-> r.cfg, before |-> cfgop.cfg,
                       codebase |-> c, names |-> reqs, err |-> "none",
                       added |-> r.added]
    /\ UNCHANGED <<batchVars, diskCfg, rm, inst, credPool, locks, cred, url>>

\* one call of Config::remove_repositories(codebase, repos); the object is
\* changed in place, also when the call returns an error
CfgRemove ==
    /\ cfgop.op # "none"
    /\ \E c \in {Target, Other} : \E reqs \in RequestsFor(c) :
         LET r == remove_repositories(cfgop.cfg, c, reqs)
         IN  cfgop' = [op |-> "remove", cfg |-> r.cfg, before |-> cfgop.cfg,
                       codebase |-> c, names |-> reqs, err |-> r.err,
                       added |-> <<>>]
    /\ UNCHANGED <<batchVars, diskCfg, rm, inst, credPool, locks, cred, url>>

NextCfg ==
    \/ CfgAdd
    \/ CfgRemove

SpecCfg == InitCfg /\ [][NextCfg]_vars

\* ------------------------------------------------- git.rs: build_repo_url
\* A URL is a sequence of pieces: "https:" and "git@" (only ever its first
\* piece), the characters "/" and ":", and "o", a run of other characters.
RestPieces == {"/", ":", "o"}
FirstPieces == {"https:", "git@"} \cup RestPieces

Bases ==
    UNION {{<<f>> \o r : f \in FirstPieces, r \in [1..n -> RestPieces]} :
              n \in 0..(MaxBaseLen - 1)}

\* github_url.starts_with("https://")
StartsWithHttps(u) == Len(u) >= 3 /\ u[1] = "https:" /\ u[2] = "/" /\ u[3] = "/"

\* github_url.starts_with("git@")
StartsWithGitAt(u) == Len(u) >= 1 /\ u[1] = "git@"

\* s.ends_with('/')
EndsWithSlash(u) == Len(u) >= 1 /\ u[Len(u)] = "/"

WithSlashAlways(u) == Append(u, "/")
\* if s.ends_with('/') { s } else { format!("{}/", s) }
WithSlash(u) == IF EndsWithSlash(u) THEN u ELSE Append(u, "/")

build_repo_url(github_url, repo_name) ==
    IF StartsWithHttps(github_url)
      THEN WithSlash(github_url) \o <<repo_name, ".git">>
    ELSE IF StartsWithGitAt(github_url)
      THEN LET parts == Split(github_url, ":")
           IN  IF Len(parts) = 2
                 THEN parts[1] \o <<":">> \o WithSlash(parts[2]) \o <<repo_name, ".git">>
                 ELSE github_url \o <<"/", repo_name, ".git">>
    ELSE github_url \o <<"/", repo_name, ".git">>

InitUrl ==
    /\ IdleBatch
    /\ NoFine
    /\ cred = [pc |-> "none"]
    /\ cfgop = [op |-> "none"]
    /\ \E base \in Bases, name \in Names :
         url = [pc |-> "idle", base |-> base, name |-> name, result |-> <<>>]

\* one call build_repo_url(&github_url, repo)
BuildRepoUrl ==
    /\ url.pc = "idle"
    /\ url' = [url EXCEPT !.pc = "built",
                          !.result = build_repo_url(url.base, url.name)]
    /\ UNCHANGED <<batchVars, diskCfg, rm, inst, credPool, locks, cred, cfgop>>

NextUrl == BuildRepoUrl

SpecUrl == InitUrl /\ [][NextUrl]_vars

\* ======================================================== properties
Count(seq, x) == Cardinality({k \in 1..Len(seq) : seq[k] = x})
ClonedCount == Cardinality({i \in Indices : outcome[i] = "cloned"})
BatchReturned == batchResult # "none"
AllExecutedOnce == \A i \in Indices : executed[i] = 1

\* C1: once the batch function has returned, cloned + already-present + failed
\* equals the number of jobs and every requested name is in exactly one of the
\* three buckets.
C1_Partition ==
    BatchReturned =>
        /\ ClonedCount + Len(already_installed_repos) + Len(errors) = total_repos
        /\ \A i \in Indices :
             (IF outcome[i] = "cloned" THEN 1 ELSE 0)
               + Count(already_installed_repos, NameOf(i)) + Count(errors, NameOf(i)) = 1

\* C2: no job is ever executed twice, and when the batch function has returned
\* every job has been executed exactly once, whatever the requested parallelism.
C2_EachJobExactlyOnce ==
    /\ \A i \in Indices : executed[i] <= 1 /\ cloneCalls[i] <= 1
    /\ BatchReturned => AllExecutedOnce

\* C3: for a non-empty job list at least one worker is spawned and the jobs are
\* processed, also when the requested parallelism is 0.
C3_AtLeastOneWorker ==
    (BatchReturned /\ total_repos >= 1) => (spawned >= 1 /\ AllExecutedOnce)

\* C4: for parallelism p >= 1 and n >= 1 jobs never more than min(p, n) workers
\* are spawned, exactly min(p, n) once the spawn loop has ended, and all n jobs
\* have been executed when the batch function returns.
C4_ClampToJobs ==
    (parallel_count >= 1 /\ total_repos >= 1) =>
        /\ spawned <= Min(parallel_count, total_repos)
        /\ mainPc \in {"join", "verdict", "returned"} => spawned = Min(parallel_count, total_repos)
        /\ mainPc = "returned" => AllExecutedOnce

C4_Witness ==
    /\ mainPc = "returned"
    /\ parallel_count > total_repos
    /\ total_repos >= 2
    /\ spawned = total_repos
    /\ AllExecutedOnce

\* C5: whenever the main thread reads the shared lists or has returned, every
\* spawned worker has terminated and none holds a job.
C5_ResultAfterJoin ==
    (mainPc \in {"verdict", "returned"} \/ BatchReturned) =>
        /\ joined = spawned
        /\ \A w \in Workers : wpc[w] \in {"idle", "done"} /\ wjob[w] = NoJob

C5_Witness ==
    /\ mainPc = "verdict"
    /\ spawned >= 2
    /\ joined = spawned
    /\ completed_repos = total_repos

\* C6: a failed clone stops nothing: a worker only terminates on an empty pending
\* list, and a batch that recorded failures has still executed every job.
C6_FailureDoesNotAbort ==
    /\ \A w \in Workers : wpc[w] = "done" => remaining_repos = <<>>
    /\ (BatchReturned /\ errors # <<>>) =>
          \A i \in Indices : executed[i] = 1 /\ outcome[i] # "none"

C6_Witness ==
    /\ BatchReturned
    /\ spawned = 1
    /\ total_repos >= 2
    /\ outcome[0] = "failed"
    /\ outcome[1] \in {"cloned", "present"}

\* C7: clone_repositories returns an error exactly when some repository of the
\* batch failed to clone, and the install command returns that value.
C7_FailedBatchIsError ==
    BatchReturned =>
        /\ batchResult = "Err" <=> (\E i \in Indices : outcome[i] = "failed")
        /\ cmdResult = batchResult

C7_Witness ==
    /\ batchResult = "Err"
    /\ \E i \in Indices : outcome[i] = "failed"
    /\ \E i \in Indices : outcome[i] = "cloned"

\* C8: when a newly added repository failed to clone, the add command returns an
\* error.
C8_AddFailsWhenCloneFails ==
    (flow = "add" /\ mainPc = "returned" /\ \E i \in Indices : outcome[i] = "failed")
        => cmdResult = "Err"

C10_PresentIsSkipped ==
    /\ \A i \in Indices :
         /\ (executed[i] >= 1 /\ NameOf(i) \in startExists) => outcome[i] = "present"
         /\ outcome[i] = "present" => (cloneCalls[i] = 0 /\ NameOf(i) \in exists)
    /\ (BatchReturned /\ startExists = SeqToSet(repos)) =>
          /\ \A i \in Indices : Count(already_installed_repos, NameOf(i)) = 1
          /\ ClonedCount = 0
          /\ reportedNew = 0
          /\ errors = <<>>

\* C11: within one clone invocation at most 6 requests are answered with a
\* credential, and the closure answers exhausted exactly from attempt index 6 on,
\* whatever the candidates and the allowed credential types are.
C11_AttemptCap ==
    cred.pc \in {"transport", "cloned", "failed"} =>
        /\ cred.granted <= 6
        /\ cred.last.kind # "none" =>
              (cred.last.attempt >= 6 <=> cred.last.kind = "exhausted")

C11_Witness ==
    /\ cred.pc = "transport"
    /\ cred.extra >= 1
    /\ cred.granted = 6
    /\ cred.last.attempt = 7
    /\ cred.last.kind = "exhausted"

\* ---------------------------------------------- the add command's rollback
\* the add command has returned after its install step ran
AddInstallDone == flow = "add" /\ mainPc = "returned" /\ batchResult # "none"

\* the newly added names whose clone failed
FailedNames == {NameOf(i) : i \in {j \in Indices : outcome[j] = "failed"}}

\* what add saved before the install step
SavedByAdd == add_repositories(startCfg, Target, request).cfg

RollbackFailures == {"reload failed", "remove failed", "save failed"}

Persisted(c) == IF c \in DOMAIN diskCfg THEN SeqToSet(diskCfg[c]) ELSE {}

Without(list, names) == SelectSeq(list, LAMBDA n : n \notin names)

\* C12 as stated: after add and an install in which the names F fail, the
\* persisted list of the codebase holds every added name outside F and none of F.
C12_FailedNamesGone ==
    AddInstallDone =>
        \A n \in SeqToSet(repos) : n \in Persisted(Target) <=> n \notin FailedNames

\* C12 in the runs in which no step of the rollback (reload, remove, save)
\* failed: the persisted list holds every added name outside F and none of F.
C12_FailedNamesGoneAfterRollback ==
    (AddInstallDone /\ rollback \notin RollbackFailures) =>
        \A n \in SeqToSet(repos) : n \in Persisted(Target) <=> n \notin FailedNames

\* the configuration of the run in which the failing names were never requested
ReferenceCfg ==
    LET kept == Without(request, FailedNames)
    IN  IF kept = <<>> THEN startCfg
        ELSE add_repositories(startCfg, Target, kept).cfg

\* C13: after an add whose install fails for some names and whose rollback
\* succeeds, the persisted configuration equals the one of the run in which the
\* failing names were never requested (same codebases, same lists).
C13_SameAsNeverRequested ==
    (AddInstallDone /\ FailedNames # {} /\ rollback = "removed") =>
        diskCfg = ReferenceCfg

\* the persisted configuration a completed rollback is to leave
ExpectedAfterRollback ==
    [SavedByAdd EXCEPT ![Target] = Without(@, FailedNames)]

\* C14 as stated: the rollback removes exactly the failed names from the
\* persisted list and leaves everything else; with no failure no rollback runs.
C14_RemovesExactlyFailed ==
    AddInstallDone =>
        /\ diskCfg = ExpectedAfterRollback
        /\ FailedNames = {} => rollback = "none"

\* C14, with the exact removal asked only of a rollback none of whose steps
\* failed: such a rollback leaves the saved configuration without exactly the
\* failed names; whether or not a step failed, only failed names are missing,
\* the other names keep their order, the other codebases are as they were; with
\* no failure no rollback step runs.
C14_RollbackFrame ==
    AddInstallDone =>
        /\ rollback \notin RollbackFailures => diskCfg = ExpectedAfterRollback
        /\ DOMAIN diskCfg = DOMAIN SavedByAdd
        /\ \A c \in DOMAIN diskCfg \ {Target} : diskCfg[c] = startCfg[c]
        /\ Without(diskCfg[Target], FailedNames) = Without(SavedByAdd[Target], FailedNames)
        /\ FailedNames = {} => (rollback = "none" /\ diskCfg = SavedByAdd)

\* C15: in one add command the clone primitive runs at most once per newly added
\* repository, and when a step of the rollback fails the persisted configuration
\* is the one add saved before the rollback.
C15_FailedRollbackLeavesDisk ==
    AddInstallDone =>
        /\ \A i \in Indices : cloneCalls[i] <= 1
        /\ rollback \in RollbackFailures => diskCfg = SavedByAdd

\* ------------------------------------------------- calls on a Config object
ListOf(cfg, c) == IF c \in DOMAIN cfg THEN cfg[c] ELSE <<>>

NoDuplicates(list) ==
    \A i \in 1..Len(list) : \A j \in 1..Len(list) : i # j => list[i] # list[j]

OthersUnchanged ==
    /\ DOMAIN cfgop.cfg = DOMAIN cfgop.before \cup
          (IF cfgop.op = "add" THEN {cfgop.codebase} ELSE {})
    /\ \A c \in DOMAIN cfgop.before \ {cfgop.codebase} :
          cfgop.cfg[c] = cfgop.before[c]

\* the name at position k of the request is not in the list when its turn comes
MissingAt(k) ==
    \/ cfgop.names[k] \notin SeqToSet(ListOf(cfgop.before, cfgop.codebase))
    \/ \E j \in 1..(k - 1) : cfgop.names[j] = cfgop.names[k]

\* C16: remove_repositories returns CodebaseNotFound when the codebase does not
\* exist, else RepositoryNotFound when some name is not in the list when it is
\* processed, and Ok only when every name was present.
C16_RemoveErrors ==
    cfgop.op = "remove" =>
        /\ cfgop.codebase \notin DOMAIN cfgop.before <=> cfgop.err = "CodebaseNotFound"
        /\ cfgop.codebase \in DOMAIN cfgop.before =>
             ((\E k \in 1..Len(cfgop.names) : MissingAt(k))
                  <=> cfgop.err = "RepositoryNotFound")
        /\ cfgop.err = "none" =>
             \A k \in 1..Len(cfgop.names) :
                 cfgop.names[k] \in SeqToSet(cfgop.before[cfgop.codebase])

C16_Witness ==
    /\ cfgop.op = "remove"
    /\ cfgop.err = "RepositoryNotFound"
    /\ Len(cfgop.names) = 2
    /\ cfgop.names[1] = cfgop.names[2]
    /\ cfgop.names[1] \in SeqToSet(ListOf(cfgop.before, cfgop.codebase))

RECURSIVE PickFrom(_, _, _)
\* the names of reqs at the positions of K, from position k on, in order
PickFrom(reqs, K, k) ==
    IF k > Len(reqs) THEN <<>>
    ELSE (IF k \in K THEN <<reqs[k]>> ELSE <<>>) \o PickFrom(reqs, K, k + 1)

\* the first occurrences of the requested names that the list did not hold
NewPositions ==
    {k \in 1..Len(cfgop.names) :
        /\ cfgop.names[k] \notin SeqToSet(ListOf(cfgop.before, cfgop.codebase))
        /\ \A j \in 1..(k - 1) : cfgop.names[j] # cfgop.names[k]}

\* C17: add_repositories appends, in request order, exactly the names not yet in
\* the list (creating the codebase), returns those names and leaves the other
\* codebases alone; from lists without duplicates no sequence of add and remove
\* calls makes a list hold a name twice.
C17_AddAppendsNew ==
    /\ cfgop.op = "add" =>
          /\ cfgop.added = PickFrom(cfgop.names, NewPositions, 1)
          /\ cfgop.cfg[cfgop.codebase] =
                 ListOf(cfgop.before, cfgop.codebase) \o cfgop.added
          /\ OthersUnchanged
    /\ cfgop.op # "none" =>
          \A c \in DOMAIN cfgop.cfg : NoDuplicates(cfgop.cfg[c])

C17_Witness ==
    /\ cfgop.op = "add"
    /\ cfgop.codebase = Target
    /\ Target \in DOMAIN cfgop.before
    /\ Len(cfgop.before[Target]) = 2
    /\ Len(cfgop.names) = 2
    /\ Len(cfgop.added) = 1
    /\ cfgop.names[1] \in SeqToSet(cfgop.before[Target])

\* C18: a successful remove_repositories removes exactly the named repositories:
\* the other names stay in their order, the length goes down by the number of
\* distinct names removed, the other codebases are unchanged.
C18_RemoveExact ==
    (cfgop.op = "remove" /\ cfgop.err = "none") =>
        /\ cfgop.cfg[cfgop.codebase] =
               Without(cfgop.before[cfgop.codebase], SeqToSet(cfgop.names))
        /\ Len(cfgop.cfg[cfgop.codebase]) =
               Len(cfgop.before[cfgop.codebase]) - Cardinality(SeqToSet(cfgop.names))
        /\ OthersUnchanged

C18_Witness ==
    /\ cfgop.op = "remove"
    /\ cfgop.err = "none"
    /\ cfgop.codebase = Target
    /\ Len(cfgop.names) = 1
    /\ Len(cfgop.before[Target]) = 3
    /\ cfgop.before[Target][2] = cfgop.names[1]
    /\ Other \in DOMAIN cfgop.cfg

\* ------------------------------------------------------ repository URLs
RECURSIVE TrimSlashes(_)
\* u without the '/' characters at its end
TrimSlashes(u) ==
    IF u # <<>> /\ u[Len(u)] = "/" THEN TrimSlashes(SubSeq(u, 1, Len(u) - 1)) ELSE u

Colons(u) == {k \in 1..Len(u) : u[k] = ":"}

\* an SSH base: it starts with git@ and has one ':' between host and path
SshHostPath(u) == StartsWithGitAt(u) /\ Cardinality(Colons(u)) = 1

SlashEnsured(u) == IF u # <<>> /\ u[Len(u)] = "/" THEN u ELSE u \o <<"/">>

\* what the rule gives for the SSH and the other forms of base
RuleSshOrOther(base, name) ==
    IF SshHostPath(base)
      THEN LET k == CHOOSE c \in Colons(base) : TRUE
           IN  SubSeq(base, 1, k - 1) \o <<":">>
                   \o SlashEnsured(SubSeq(base, k + 1, Len(base))) \o <<name, ".git">>
      ELSE base \o <<"/", name, ".git">>

\* C19 as stated: for an HTTPS base the result is the base brought to exactly one
\* trailing '/', then name and ".git"; for an SSH host:path base host ':' path
\* with a trailing '/' ensured, then name and ".git"; else base "/" name ".git".
C19_UrlRuleOneSlash ==
    url.pc = "built" =>
        url.result =
            IF StartsWithHttps(url.base)
              THEN TrimSlashes(url.base) \o <<"/", url.name, ".git">>
              ELSE RuleSshOrOther(url.base, url.name)

\* C19 amended: for an HTTPS base the result is the base, with one '/' appended
\* when it does not end with '/', then name and ".git"; the rest as stated.
C19_UrlRule ==
    url.pc = "built" =>
        url.result =
            IF StartsWithHttps(url.base)
              THEN SlashEnsured(url.base) \o <<url.name, ".git">>
              ELSE RuleSshOrOther(url.base, url.name)

C19_Witness ==
    /\ url.pc = "built"
    /\ url.base = <<"https:", "/", "/", "o", "/", "/">>
    /\ url.result = <<"https:", "/", "/", "o", "/", "/", url.name, ".git">>

\* C20: with terminating clones and fair scheduling the batch function
\* eventually returns with every worker terminated, every job executed and the
\* pending list empty.
C20_BatchCompletes ==
    <>(/\ mainPc = "returned"
       /\ \A w \in Workers : wpc[w] \in {"idle", "done"}
       /\ AllExecutedOnce
       /\ remaining_repos = <<>>)

\* ---------------------------------------------------- the pending list
HandedOut == {i \in Indices : taken[i] >= 1}

\* C21: every index handed out is a job index, no index is handed out twice nor
\* held by two workers, the pending indices and the indices handed out are
\* together exactly the job indices, and a take on the empty list makes the
\* worker terminate.
C21_TakeOnce ==
    /\ [](/\ \A i \in Indices : taken[i] <= 1
          /\ \A w \in Workers : wjob[w] # NoJob => wjob[w] \in Indices
          /\ \A v \in Workers : \A w \in Workers :
                (v # w /\ wjob[v] # NoJob) => wjob[v] # wjob[w]
          /\ SeqToSet(remaining_repos) \cup HandedOut = Indices
          /\ SeqToSet(remaining_repos) \cap HandedOut = {}
          /\ Len(remaining_repos) = Cardinality(SeqToSet(remaining_repos)))
    /\ [][\A w \in Workers :
             (wpc[w] = "take" /\ remaining_repos = <<>> /\ wpc'[w] # "take")
                 => (wpc'[w] = "done" /\ wjob'[w] = NoJob /\ taken' = taken)]_vars

C21_Witness ==
    /\ remaining_repos = <<>>
    /\ \A i \in Indices : taken[i] = 1
    /\ \E v \in Workers : \E w \in Workers :
          /\ wpc[v] = "done"
          /\ wjob[w] # NoJob
    /\ total_repos >= 2

\* ------------------------------------------------ the credential callback
Answered == cred.last.kind \notin {"none", "exhausted"}

\* C22: at attempt index i in 1..5, when user/pass is not acceptable, the
\* selected key candidate is the one at position (i - 1) mod candidateCount of the
\* list: standard names first, then IdentityFile entries, then scanned files.
C22_KeySelection ==
    (Answered /\ ~cred.last.userPass
        /\ cred.last.attempt >= 1 /\ cred.last.attempt <= 5) =>
        /\ cred.last.selected = (cred.last.attempt - 1) % (6 + cred.extra)
        /\ cred.last.key = StandardNames[cred.last.attempt]
        /\ SubSeq(cred.keys, 1, 6) = StandardNames
        /\ \A k \in 7..Len(cred.keys) : \A j \in 7..Len(cred.keys) :
              (cred.keys[k] = "IdentityFile" /\ cred.keys[j] = "scanned") => k < j

C22_Witness ==
    /\ Answered
    /\ ~cred.last.userPass
    /\ cred.last.attempt = 5
    /\ cred.last.kind = "key"
    /\ cred.last.selected = 4
    /\ cred.extra >= 1

\* C23: the agent is asked only at attempt index 0; when it yields a credential
\* there, that credential is returned and no key file is selected.
C23_AgentOnlyFirst ==
    /\ cred.last.agent => cred.last.attempt = 0
    /\ cred.last.kind = "agent" =>
          /\ cred.last.attempt = 0
          /\ cred.last.selected = NoKey
          /\ cred.last.key = "none"
    /\ (Answered /\ cred.last.attempt = 0 /\ ~cred.last.userPass /\ cred.last.agentOk)
          => cred.last.kind = "agent"

C23_Witness ==
    /\ cred.last.kind = "agent"
    /\ cred.last.attempt = 0
    /\ cred.last.keyOk

\* a URL of the form user@host:path
HasUserPrefix(u) == Len(u) >= 4 /\ u[2] = "@" /\ u[4] = ":"

\* C24: when the transport gives no username, the username of the credential is
\* the part of the URL before '@' for a URL user@host:path, and "git" otherwise.
C24_UsernameFromUrl ==
    (Answered /\ cred.last.from_url = NoUser) =>
        cred.last.username =
            IF HasUserPrefix(cred.url) THEN <<cred.url[1]>> ELSE <<"git">>

\* C26: when user/pass is acceptable, below the cap the default credential is
\* returned and neither the agent nor a key candidate is consulted.
C26_UserPassFirst ==
    (cred.last.kind # "none" /\ cred.last.userPass /\ cred.last.attempt <= 5) =>
        /\ cred.last.kind = "default"
        /\ ~cred.last.agent
        /\ cred.last.selected = NoKey
        /\ cred.last.key = "none"

C26_Witness ==
    /\ cred.last.kind = "default"
    /\ cred.last.userPass
    /\ cred.last.attempt = 0
    /\ cred.last.agentOk
    /\ cred.last.keyOk

\* C25: the attempt counter belongs to one clone invocation: it is 0 when the
\* invocation starts, goes up by 1 with each of its own callbacks and with
\* nothing else, so every invocation, also a later one of the same thread, gets
\* its own six attempts whatever the other threads do.
C25_CounterPerInvocation ==
    credPool.pc = "pool" =>
        \A c \in Cloners :
            (credPool.inv[c].pc = "transport" /\ credPool.inv[c].calls >= 1) =>
                      /\ credPool.inv[c].attempt = credPool.inv[c].calls - 1
                      /\ credPool.inv[c].kind = "exhausted"
                             <=> credPool.inv[c].calls > 6

C25_Witness ==
    /\ credPool.pc = "pool"
    /\ \E c \in Cloners : \E d \in Cloners :
          /\ c # d
          /\ credPool.inv[c].pc = "transport"
          /\ credPool.inv[c].later
          /\ credPool.inv[c].calls = 6
          /\ credPool.inv[c].kind = "credential"
          /\ credPool.inv[d].pc = "transport"
          /\ credPool.inv[d].kind = "exhausted"

\* --------------------------------------------------- counting and holding
\* the workers that have taken an index and not yet counted it
Holding == {w \in Workers : wjob[w] # NoJob}
InFlight == Cardinality(Holding)

\* the outcome of job i is where the batch function will read it
Recorded(i) ==
    /\ outcome[i] # "none"
    /\ outcome[i] = "failed" => NameOf(i) \in SeqToSet(errors)
    /\ (outcome[i] = "present" /\ flow = "install")
           => NameOf(i) \in SeqToSet(already_installed_repos)

\* C27: the completed count is 0 at the start, is total - pending - in-flight in
\* every state, never exceeds the total, equals the published progress
\* position, equals the total when a batch with a worker returns; within a run
\* it only goes up, by 1, when a worker counts a job whose outcome is recorded.
C27_CompletedCount ==
    /\ [](/\ completed_repos >= 0
          /\ completed_repos <= total_repos
          /\ completed_repos = total_repos - Len(remaining_repos) - InFlight
          /\ progressPos = completed_repos
          /\ mainPc = "start" => completed_repos = 0
          /\ (BatchReturned /\ spawned >= 1) => completed_repos = total_repos)
    /\ [][run' = run =>
            /\ completed_repos' \in {completed_repos, completed_repos + 1}
            /\ progressPos' >= progressPos
            /\ completed_repos' # completed_repos =>
                  \E w \in Workers :
                      /\ wjob[w] # NoJob
                      /\ wjob'[w] = NoJob
                      /\ Recorded(wjob[w])]_vars

C27_Witness ==
    /\ completed_repos = 1
    /\ InFlight = 1
    /\ total_repos = 2
    /\ remaining_repos = <<>>
    /\ errors # <<>>

\* C28: a worker holds at most one index, and only between its take and its
\* count; every index handed out and no longer held is recorded and counted;
\* the indices in flight are never more than min(parallelism, jobs).
C28_OneJobPerWorker ==
    /\ InFlight <= Min(parallel_count, total_repos)
    /\ \A w \in Workers :
          wjob[w] # NoJob <=> wpc[w] \in {"check", "clone", "error", "progress"}
    /\ Cardinality(HandedOut) = completed_repos + InFlight
    /\ \A i \in HandedOut :
          (\A w \in Workers : wjob[w] # i) => Recorded(i)

C28_Witness ==
    /\ parallel_count = 1
    /\ total_repos = 2
    /\ completed_repos = 1
    /\ InFlight = 1
    /\ \E w \in Workers : wpc[w] = "clone"

C29_NoLockAcrossClone ==
    \A w \in Workers :
        /\ wpc[w] = "clone" => HeldBy(w) = {}
        /\ Cardinality(HeldBy(w)) <= 1

C29_Witness ==
    \E v \in Workers : \E w \in Workers :
        /\ wpc[v] = "clone"
        /\ wpc[w] = "take"
        /\ locks["remaining_repos"] = w
        /\ errors # <<>>

\* ------------------------------------------------ a retry after a failure
\* C31: no step removes a local path, and when a retried install has returned,
\* every repository whose failed clone left its path behind was classified
\* already present without a clone, and the batch is Ok if no clone failed.
C31_LeftoverIsPresent ==
    /\ [](/\ (run = 2 /\ BatchReturned) =>
                /\ \A i \in Indices :
                      NameOf(i) \in leftBehind =>
                          /\ outcome[i] = "present"
                          /\ cloneCalls[i] = 0
                          /\ NameOf(i) \in SeqToSet(already_installed_repos)
                /\ errors = <<>> => batchResult = "Ok")
    /\ [][exists \subseteq exists']_vars

\* ------------------------------------------------------ the remove command
\* the repositories a remove command is about
Targeted ==
    IF rm.request # <<>> THEN SeqToSet(rm.request)
    ELSE IF Target \in DOMAIN rm.cfg0 THEN SeqToSet(rm.cfg0[Target]) ELSE {}

\* a targeted repository on disk has uncommitted changes or unpushed commits
HasUnsavedWork ==
    \E n \in Targeted : rm.dirs0[n] \in {"dirty", "ahead", "unpublished"}

\* C32: without force, when a targeted repository on disk has uncommitted
\* changes or unpushed commits, the command changes neither the configuration
\* (in memory, persisted) nor a directory, and returns UncommittedChanges or
\* UnpushedCommits; with force it never returns the error of a check.
C32_RemoveRefusesUnsaved ==
    rm.pc # "none" =>
        /\ (~rm.force /\ HasUnsavedWork) =>
              /\ rm.cfg = rm.cfg0
              /\ rm.saved = rm.cfg0
              /\ rm.dirs = rm.dirs0
              /\ rm.codebaseDir = rm.codebaseDir0
              /\ rm.pc = "returned" =>
                    rm.result \in {"UncommittedChanges", "UnpushedCommits"}
        /\ rm.force => rm.result \notin {"UncommittedChanges", "UnpushedCommits", "Git"}

\* ----------------------------------------- key candidates of one invocation
\* C33: within one clone invocation no key candidate is selected by two
\* attempts: the candidates selected so far are as many as the selections made.
C33_DistinctKeys ==
    cred.pc # "none" => Cardinality(cred.picked) = cred.selections

\* C37: within one clone invocation only the candidates at positions 0..4 of the
\* list are ever selected, whatever the list holds beyond the standard entries:
\* never the sixth standard entry, an IdentityFile entry or a scanned file.
C37_FirstFiveOnly ==
    cred.pc # "none" =>
        /\ cred.picked \subseteq 0..4
        /\ cred.last.key \in {"none"} \cup {StandardNames[k] : k \in 1..5}
        /\ Len(cred.keys) >= 6

C37_Witness ==
    /\ cred.pc = "transport"
    /\ cred.extra >= 1
    /\ cred.attempt_count >= 7
    /\ cred.last.kind = "exhausted"
    /\ cred.picked = 0..4

\* ------------------------------------------------------------ no deadlock
\* C34: a worker holds at most one of the four mutexes and locks one only while
\* it holds none; the caller holds a mutex only after all workers were joined;
\* and until the batch function has returned some thread can take a step.
C34_NoDeadlock ==
    /\ [](/\ \A w \in Workers : Cardinality(HeldBy(w)) <= 1
          /\ HeldByCaller # {} =>
                /\ joined = spawned
                /\ mainPc \in {"verdict", "returned"}
                /\ \A w \in Workers : wpc[w] \in {"idle", "done"} /\ HeldBy(w) = {}
          /\ mainPc # "returned" => ENABLED NextLocks)
    /\ [][\A w \in Workers : \A m \in Mutexes :
            (locks[m] # w /\ locks'[m] = w) => HeldBy(w) = {}]_vars

\* a worker waits for the completed count while another worker holds it
C34_Witness ==
    /\ \E v \in Workers : \E w \in Workers :
          /\ v # w
          /\ locks["completed_repos"] = v
          /\ wpc[w] = "progress"
          /\ HeldBy(w) = {}
    /\ errors # <<>>

\* --------------------------------------------------------- what Ok means
\* C35: when the batch function of install has returned Ok, with a success
\* message, every repository of the batch went through the existence check
\* and was found present or was cloned, whatever the requested parallelism.
C35_OkMeansInstalled ==
    (flow = "install" /\ batchResult = "Ok") =>
        /\ total_repos >= 1 =>
              report \in {"successfully installed", "already up to date", "no new repositories"}
        /\ \A i \in Indices :
              /\ executed[i] >= 1
              /\ outcome[i] \in {"present", "cloned"}
              /\ NameOf(i) \in exists

\* ------------------------------------------------- install of all codebases
\* codebase c has a job that a worker took
Touched(c) == \E k \in DOMAIN inst.jobs[c] : inst.jobs[c][k] # "pending"

\* C36: at any time only the codebase whose turn it is has jobs running, the
\* codebases after it in the order are untouched, and once a batch has reported
\* a failure the command has returned Err and no job of a later codebase was
\* ever taken.
C36_OneBatchAtATime ==
    inst.pc # "none" =>
        /\ \A p \in 1..Len(inst.order) :
              /\ (\E k \in DOMAIN inst.jobs[inst.order[p]] :
                      inst.jobs[inst.order[p]][k] = "running")
                    => (inst.pc = "batch" /\ p = inst.idx)
              /\ p > inst.idx => ~Touched(inst.order[p])
        /\ inst.failedAt # 0 =>
              /\ inst.pc = "returned"
              /\ inst.result = "Err"
              /\ inst.idx = inst.failedAt
              /\ ~inst.lateWork
        /\ inst.result = "Ok" => inst.failedAt = 0

C36_Witness ==
    /\ inst.pc = "returned"
    /\ inst.result = "Err"
    /\ inst.failedAt = 1
    /\ Len(inst.order) = 2
    /\ inst.jobs[inst.order[1]] = <<"ok", "failed">>
    /\ inst.jobs[inst.order[2]] = <<"pending", "pending">>

\* ----------------------------------------------- removal is all or nothing
\* C38: when Config::remove_repositories returns an error, the configuration
\* in memory is what it was before the call.
C38_RemoveAllOrNothing ==
    (cfgop.op = "remove" /\ cfgop.err # "none") => cfgop.cfg = cfgop.before

\* ------------------------------------------- what the rollback is to remove
\* C39: in the add flow the names the rollback parses out of the CommandFailed
\* message are the names the workers recorded in the error list, each as many
\* times; the parsed list is not empty when the error list is not.
C39_ParsedIsErrorList ==
    (flow = "add" /\ mainPc = "returned" /\ batchResult = "Err") =>
        /\ toRemove # <<>>
        /\ \A n \in SeqToSet(toRemove) \cup SeqToSet(errors) :
              Count(toRemove, n) = Count(errors, n)

\* ------------------------------------------------------ the order of starts
\* C40: the pending list is ascending and holds only indices above every index
\* handed out, so the indices handed out are an initial segment 0..k-1: when job
\* j has been taken every job below j is held by a worker or recorded; and each
\* take hands out the smallest pending index.
C40_AscendingStarts ==
    /\ [](/\ \A p \in 1..Len(remaining_repos) : \A q \in 1..Len(remaining_repos) :
                p < q => remaining_repos[p] < remaining_repos[q]
          /\ \A i \in HandedOut : \A j \in SeqToSet(remaining_repos) : i < j
          /\ \A j \in HandedOut : \A i \in 0..(j - 1) :
                /\ i \in HandedOut
                /\ (\E w \in Workers : wjob[w] = i) \/ Recorded(i))
    /\ [][\A w \in Workers :
            (wjob[w] = NoJob /\ wjob'[w] # NoJob) =>
                \A k \in SeqToSet(remaining_repos) : wjob'[w] <= k]_vars

C40_Witness ==
    /\ total_repos = 2
    /\ \E v \in Workers : \E w \in Workers :
          /\ wjob[v] = 0
          /\ wpc[v] = "clone"
          /\ wjob[w] = 1
          /\ wpc[w] = "check"

====
